---- MODULE Spec2Model ----
(***************************************************************************)
(* Binance-Trade-Analyzer: the metrics engine (src/src/analysis/metrics.py)*)
(* and the ranking engine (src/src/analysis/ranking.py).                   *)
(*                                                                         *)
(* Numbers.  A pandas float cell is modelled as an extended rational       *)
(* <<n, d>>: d > 0 and gcd(n, d) = 1 for a finite value, <<0, 0>> for NaN, *)
(* <<1, 0>> for +inf and <<-1, 0>> for -inf.  Arithmetic is exact, with    *)
(* the IEEE rules for division by zero (x/0 = +-inf, 0/0 = NaN).  The one  *)
(* irrational step, the square root inside the Sharpe ratio, is taken to   *)
(* a fixed number of digits (SqrtScale, SharpeScale).                      *)
(*                                                                         *)
(* Tables.  A DataFrame is a sequence of row records in index order; a     *)
(* Series is [index |-> sequence of keys, data |-> function on the keys].  *)
(***************************************************************************)
EXTENDS Integers, Sequences, FiniteSets, TLC

VARIABLES trades, metrics, normalized_metrics, weighted_scores, rankings, top_n, pc, raised,
          mdd_sort, score_sort, run, prev_metrics, prev_rankings,
          call_weights, selected_account, rank_display, score_display

vars == <<trades, metrics, normalized_metrics, weighted_scores, rankings, top_n, pc, raised,
          mdd_sort, score_sort, run, prev_metrics, prev_rankings,
          call_weights, selected_account, rank_display, score_display>>

(***************************************************************************)
(* Bounds of the model.                                                    *)
(***************************************************************************)
MaxTrades == 3
MaxRows == 2
MaxTopN == 3
NegTopN == 1
MaxAccountTrades == 3
MaxTwiceTrades == 2
MaxParsedTrades == 2

Accounts == {1, 2, 3}
Times == {0, 1, 2}
\* <<realizedProfit, quantity>> of a trade
TradeValues == {<< <<-1, 1>>, <<1, 1>> >>, << <<1, 1>>, <<0, 1>> >>}
\* the cells a metrics table handed to rank_accounts may hold, by column
RoiValues == {<<-1, 1>>, <<2, 1>>}
PnlValues == {<<0, 1>>, <<3, 1>>}
SharpeValues == {<<1, 1>>, <<1, 0>>}
MddValues == {<<0, 1>>, <<50, 1>>}
WinRateValues == {<<0, 0>>, <<100, 1>>}

\* the trades of a single account: four times on three calendar dates, and
\* <<realizedProfit, quantity>> pairs
AccountTimes == {0, 1, 2, 4}
AccountValues == {<< <<-2, 1>>, <<1, 1>> >>, << <<-1, 1>>, <<1, 1>> >>,
                  << <<0, 1>>, <<1, 1>> >>, << <<3, 2>>, <<0, 1>> >>}

(***************************************************************************)
(* Extended rational arithmetic.                                           *)
(***************************************************************************)
Abs(x) == IF x < 0 THEN -x ELSE x

Sign(x) == IF x < 0 THEN -1 ELSE IF x > 0 THEN 1 ELSE 0

RECURSIVE GCD(_, _)
GCD(a, b) == IF b = 0 THEN a ELSE GCD(b, a % b)

Norm(n, d) ==
    IF d = 0 THEN <<Sign(n), 0>>
    ELSE LET g == GCD(Abs(n), Abs(d))
             s == IF d < 0 THEN -1 ELSE 1
         IN  <<s * (n \div g), s * (d \div g)>>

NaN == <<0, 0>>
PosInf == <<1, 0>>
NegInf == <<-1, 0>>
Zero == <<0, 1>>
One == <<1, 1>>
Hundred == <<100, 1>>

R(i) == <<i, 1>>

IsNaN(x) == x = NaN
IsInf(x) == x[2] = 0 /\ x[1] # 0
IsFinite(x) == x[2] # 0

RNeg(x) == <<-x[1], x[2]>>

RAdd(x, y) ==
    IF x[2] # 0 /\ y[2] # 0
    THEN LET g == GCD(x[2], y[2])
         IN  Norm(x[1] * (y[2] \div g) + y[1] * (x[2] \div g), (x[2] \div g) * y[2])
    ELSE IF IsNaN(x) \/ IsNaN(y) THEN NaN
    ELSE IF x[2] = 0 /\ y[2] = 0 THEN (IF x = y THEN x ELSE NaN)
    ELSE IF x[2] = 0 THEN x ELSE y

RSub(x, y) == RAdd(x, RNeg(y))

RMul(x, y) ==
    IF x[2] # 0 /\ y[2] # 0
    THEN LET g1 == GCD(Abs(x[1]), y[2])
             g2 == GCD(Abs(y[1]), x[2])
         IN  Norm((x[1] \div g1) * (y[1] \div g2), (x[2] \div g2) * (y[2] \div g1))
    ELSE Norm(x[1] * y[1], 0)

RInv(y) == IF y[1] < 0 THEN <<-y[2], -y[1]>> ELSE <<y[2], y[1]>>

RDiv(x, y) ==
    IF y[2] = 0 /\ x[2] = 0 THEN NaN
    ELSE IF y[1] = 0 THEN Norm(x[1] * y[2], 0)
    ELSE RMul(x, RInv(y))

RAbs(x) == <<Abs(x[1]), x[2]>>

\* x < y with the IEEE rule that every comparison with NaN is false
RLt(x, y) ==
    IF IsNaN(x) \/ IsNaN(y) THEN FALSE
    ELSE IF x[2] # 0 /\ y[2] # 0
         THEN LET g == GCD(x[2], y[2])
              IN  x[1] * (y[2] \div g) < y[1] * (x[2] \div g)
    ELSE IF x[2] = 0 /\ y[2] = 0 THEN x[1] < y[1]
    ELSE IF x[2] = 0 THEN x[1] < 0
    ELSE y[1] > 0

REq(x, y) == ~IsNaN(x) /\ ~IsNaN(y) /\ x = y
RNe(x, y) == ~REq(x, y)
RLe(x, y) == RLt(x, y) \/ REq(x, y)

RECURSIVE RSum(_)
RSum(s) == IF s = <<>> THEN Zero ELSE RAdd(Head(s), RSum(Tail(s)))

\* Series.max() / Series.min(): NaN cells are skipped; NaN when nothing is left
RECURSIVE RMaxSeq(_)
RMaxSeq(s) ==
    IF s = <<>> THEN NaN
    ELSE LET m == RMaxSeq(Tail(s))
         IN  IF IsNaN(Head(s)) THEN m
             ELSE IF IsNaN(m) \/ RLt(m, Head(s)) THEN Head(s) ELSE m

RECURSIVE RMinSeq(_)
RMinSeq(s) ==
    IF s = <<>> THEN NaN
    ELSE LET m == RMinSeq(Tail(s))
         IN  IF IsNaN(Head(s)) THEN m
             ELSE IF IsNaN(m) \/ RLt(Head(s), m) THEN Head(s) ELSE m

\* largest r with r * r <= n, by bisection on lo..hi
RECURSIVE ISqrtIn(_, _, _)
ISqrtIn(n, lo, hi) ==
    IF lo >= hi THEN lo
    ELSE LET mid == (lo + hi + 1) \div 2
         IN  IF mid * mid <= n THEN ISqrtIn(n, mid, hi) ELSE ISqrtIn(n, lo, mid - 1)

ISqrt(n) == ISqrtIn(n, 0, 46340)

(***************************************************************************)
(* Binary floating point.  Series.mean() and Series.std() work on float64  *)
(* values and round after every operation; the outcome of the test         *)
(* std > 0 depends on that rounding.  The mantissa is cut from 53 bits to  *)
(* MantissaBits so that the numbers stay within machine integers; the      *)
(* exponent is not limited.                                                *)
(***************************************************************************)
MantissaBits == 3

RECURSIVE Pow2(_)
Pow2(k) == IF k = 0 THEN 1 ELSE 2 * Pow2(k - 1)

\* the mantissas m are the integers with MantissaLow <= m < MantissaHigh
MantissaLow == Pow2(MantissaBits - 1)
MantissaHigh == Pow2(MantissaBits)

\* n / d to the nearest integer, a half going to the even neighbour (n >= 0, d > 0)
RoundHalfEven(n, d) ==
    LET fl == n \div d
        twice == 2 * (n - fl * d)
    IN  IF twice > d \/ (twice = d /\ fl % 2 = 1) THEN fl + 1 ELSE fl

\* (n / d) * (sn / sd) rounded to MantissaBits significant bits (n, d > 0)
RECURSIVE FlScaled(_, _, _, _)
FlScaled(n, d, sn, sd) ==
    IF n < MantissaLow * d THEN FlScaled(2 * n, d, sn, 2 * sd)
    ELSE IF n >= MantissaHigh * d THEN FlScaled(n, 2 * d, 2 * sn, sd)
    ELSE Norm(RoundHalfEven(n, d) * sn, sd)

\* the float nearest to x
Fl(x) ==
    IF x[2] = 0 \/ x[1] = 0 THEN x
    ELSE LET r == FlScaled(Abs(x[1]), x[2], 1, 1)
         IN  <<Sign(x[1]) * r[1], r[2]>>

\* a float sum taken left to right
RECURSIVE FlSum(_)
FlSum(s) ==
    IF s = <<>> THEN Zero
    ELSE Fl(RAdd(FlSum(SubSeq(s, 1, Len(s) - 1)), s[Len(s)]))

(***************************************************************************)
(* Sequences and index helpers.                                            *)
(***************************************************************************)
RECURSIVE SortedSeq(_)
SortedSeq(S) ==
    IF S = {} THEN <<>>
    ELSE LET m == CHOOSE x \in S : \A y \in S : x <= y
         IN  <<m>> \o SortedSeq(S \ {m})

Range(s) == {s[i] : i \in DOMAIN s}

\* the element of a singleton: The({e(v) : v \in {x}}) is e(x) with x computed once
The(S) == CHOOSE r \in S : TRUE
\* a sequence held as a tuple of computed values
Tuple(s) == s \o <<>>

Permute(s, p) == [i \in DOMAIN s |-> s[p[i]]]

\* Series.unique(): the distinct values in order of first appearance
RECURSIVE UniqueSeq(_)
UniqueSeq(s) ==
    IF s = <<>> THEN <<>>
    ELSE LET r == UniqueSeq(SubSeq(s, 1, Len(s) - 1))
         IN  IF s[Len(s)] \in Range(r) THEN r ELSE Append(r, s[Len(s)])

Column(df, c) == [i \in DOMAIN df |-> df[i][c]]

PortIDs(df) == {df[i].Port_IDs : i \in DOMAIN df}

PortRows(df, a) == SelectSeq(df, LAMBDA r : r.Port_IDs = a)

(***************************************************************************)
(* metrics.py.  A trade row is [Port_IDs, timestamp, realizedProfit,       *)
(* quantity]; timestamp counts ticks, TicksPerDay of them to a calendar    *)
(* date.  calculate_sharpe_ratio adds the column date to the frame it is   *)
(* given.                                                                  *)
(***************************************************************************)
TicksPerDay == 2
DaysPerYear == 365
DailyRfDen == 18432
SqrtScale == 100
SharpeScale == 10

\* Series built by a groupby('Port_IDs'): the keys in ascending order
GroupIndex(df) == SortedSeq(PortIDs(df))

SumOf(df, a, c) == RSum(Column(PortRows(df, a), c))

\* the ratio taken whatever the quantity, the np.where guard left out
calculate_roi_unguarded(df) ==
    [index |-> GroupIndex(df),
     data |-> [a \in PortIDs(df) |->
                 RMul(RDiv(SumOf(df, a, "realizedProfit"), SumOf(df, a, "quantity")), Hundred)]]

calculate_roi(df) ==
    [index |-> GroupIndex(df),
     data |-> [a \in PortIDs(df) |->
                 LET profit == SumOf(df, a, "realizedProfit")
                     qty == SumOf(df, a, "quantity")
                 IN  IF RNe(qty, Zero) THEN RMul(RDiv(profit, qty), Hundred) ELSE Zero]]

\* the sum taken over the whole frame, the groupby left out
calculate_pnl_ungrouped(df) ==
    [index |-> GroupIndex(df),
     data |-> [a \in PortIDs(df) |-> RSum(Column(df, "realizedProfit"))]]

calculate_pnl(df) ==
    [index |-> GroupIndex(df),
     data |-> [a \in PortIDs(df) |-> SumOf(df, a, "realizedProfit")]]

\* trades_df['date'] = trades_df['timestamp'].dt.date
DateOf(t) == t \div TicksPerDay

\* the date written over the column timestamp as well
WithDateOverTimestamp(df) ==
    [i \in DOMAIN df |->
        [date |-> DateOf(df[i].timestamp), timestamp |-> DateOf(df[i].timestamp)] @@ df[i]]

\* the column date set on every row, the other columns kept
WithDate(df) ==
    [i \in DOMAIN df |-> [date |-> DateOf(df[i].timestamp)] @@ df[i]]

\* groupby(['Port_IDs', 'date'])['realizedProfit'].sum(), the rows of one account
DailyReturns(df, a) ==
    The({The({[k \in DOMAIN dates |->
                  RSum(Column(SelectSeq(rows, LAMBDA r : r.date = dates[k]), "realizedProfit"))]
              : dates \in {SortedSeq({rows[i].date : i \in DOMAIN rows})}})
         : rows \in {Tuple(PortRows(WithDate(df), a))}})

\* Series.mean(): values.sum() / count
Mean(s) == Fl(RDiv(FlSum(s), R(Len(s))))

\* Series.std(): avg = values.sum() / count, then sum((avg - values) ** 2) / (count - 1),
\* whose root is the deviation
Variance(s) ==
    The({The({Fl(RDiv(FlSum(sqr), R(Len(s) - 1)))
              : sqr \in {Tuple([i \in DOMAIN s |->
                                  The({Fl(RMul(d, d)) : d \in {Fl(RSub(avg, s[i]))}})])}})
         : avg \in {Mean(s)}})

\* np.sqrt(365) * (mean / std), cut to 1/SharpeScale; var is std squared
SharpeOf(mean, var) ==
    LET q == ISqrt((DaysPerYear * SqrtScale * SqrtScale * var[2]) \div var[1])
        g == (Abs(mean[1]) * q) \div (mean[2] * (SqrtScale \div SharpeScale))
    IN  Norm(Sign(mean[1]) * g, SharpeScale)

DailyRf == <<1, DailyRfDen>>

SharpeValue(port_returns) ==
    IF Len(port_returns) > 1
    THEN The({The({IF RLt(Zero, var) THEN The({SharpeOf(mean, var) : mean \in {Mean(excess_returns)}})
                                          ELSE Zero
                   : var \in {Variance(excess_returns)}})
              : excess_returns \in
                    {Tuple([i \in DOMAIN port_returns |-> Fl(RSub(port_returns[i], DailyRf))])}})
    ELSE Zero

calculate_sharpe_ratio(df) ==
    [index |-> GroupIndex(df),
     data |-> [a \in PortIDs(df) |-> The({SharpeValue(r) : r \in {Tuple(DailyReturns(df, a))}})]]

\* sort_values('timestamp') uses the default quicksort, which is not stable:
\* rows with equal timestamps may come out in any order
RECURSIVE TimestampOrders(_, _)
TimestampOrders(rows, I) ==
    IF I = {} THEN {<<>>}
    ELSE UNION {{<<i>> \o s : s \in TimestampOrders(rows, I \ {i})} :
                i \in {k \in I : \A j \in I : rows[k].timestamp <= rows[j].timestamp}}

TimestampSortings(rows) == {Permute(rows, q) : q \in TimestampOrders(rows, DOMAIN rows)}

RECURSIVE CumProd(_)
CumProd(s) ==
    IF s = <<>> THEN <<>>
    ELSE LET r == CumProd(SubSeq(s, 1, Len(s) - 1))
         IN  Append(r, IF r = <<>> THEN s[Len(s)] ELSE RMul(r[Len(r)], s[Len(s)]))

ExpandingMax(s) == [i \in DOMAIN s |-> RMaxSeq(SubSeq(s, 1, i))]

\* the running maximum started at the capital of 1 held before the first trade
MddValueFromStart(port_trades) ==
    IF Len(port_trades) > 0
    THEN LET profit == Column(port_trades, "realizedProfit")
             cumulative_returns == CumProd([i \in DOMAIN profit |-> RAdd(One, profit[i])])
             rolling_max == ExpandingMax(<<One>> \o cumulative_returns)
             drawdowns == [i \in DOMAIN profit |->
                              RSub(RDiv(cumulative_returns[i], rolling_max[i + 1]), One)]
         IN  RMul(RAbs(RMinSeq(drawdowns)), Hundred)
    ELSE Zero

\* drawdowns.min() * 100, the abs() left out
MddValueSigned(port_trades) ==
    IF Len(port_trades) > 0
    THEN LET profit == Column(port_trades, "realizedProfit")
             cumulative_returns == CumProd([i \in DOMAIN profit |-> RAdd(One, profit[i])])
             rolling_max == ExpandingMax(cumulative_returns)
             drawdowns == [i \in DOMAIN profit |->
                              RSub(RDiv(cumulative_returns[i], rolling_max[i]), One)]
         IN  RMul(RMinSeq(drawdowns), Hundred)
    ELSE Zero

MddValue(port_trades) ==
    IF Len(port_trades) > 0
    THEN The({The({The({The({RMul(RAbs(RMinSeq(drawdowns)), Hundred)
                             : drawdowns \in
                                   {Tuple([i \in DOMAIN profit |->
                                              RSub(RDiv(cumulative_returns[i], rolling_max[i]), One)])}})
                        : rolling_max \in {Tuple(ExpandingMax(cumulative_returns))}})
                   : cumulative_returns \in
                         {CumProd([i \in DOMAIN profit |-> RAdd(One, profit[i])])}})
              : profit \in {Tuple(Column(port_trades, "realizedProfit"))}})
    ELSE Zero

\* the sorted frames of every account, one choice of sort result each
RECURSIVE SortResultsOf(_, _)
SortResultsOf(df, ids) ==
    IF ids = {} THEN {<<>>}
    ELSE LET a == CHOOSE x \in ids : TRUE
         IN  {(a :> o) @@ f : o \in TimestampSortings(PortRows(df, a)),
                              f \in SortResultsOf(df, ids \ {a})}

SortResults(df) == SortResultsOf(df, PortIDs(df))

calculate_mdd(df, sorted) ==
    [index |-> UniqueSeq(Column(df, "Port_IDs")),
     data |-> [a \in PortIDs(df) |-> The({MddValue(port_trades) : port_trades \in {sorted[a]}})]]

\* (x >= 0).sum(): a trade without profit counted as a win
WinPositionsNonNegative(df, a) == Cardinality({i \in DOMAIN df : df[i].Port_IDs = a /\ RLe(Zero, df[i].realizedProfit)})

WinPositions(df, a) == Cardinality({i \in DOMAIN df : df[i].Port_IDs = a /\ RLt(Zero, df[i].realizedProfit)})

TotalPositions(df, a) == Len(PortRows(df, a))

calculate_win_rate(df) ==
    [index |-> GroupIndex(df),
     data |-> [a \in PortIDs(df) |->
                 [realizedProfit |-> R(WinPositions(df, a)),
                  total_positions |-> R(TotalPositions(df, a)),
                  win_rate |-> IF TotalPositions(df, a) > 0
                               THEN RMul(RDiv(R(WinPositions(df, a)), R(TotalPositions(df, a))), Hundred)
                               ELSE Zero]]]

\* the index pandas gives a frame built from several Series: the first index when
\* all are equal, their sorted union otherwise
UnionIndexes(ixs) ==
    IF \A k \in DOMAIN ixs : ixs[k] = ixs[1] THEN ixs[1]
    ELSE SortedSeq(UNION {Range(ixs[k]) : k \in DOMAIN ixs})

\* a cell of a Series aligned to another index: NaN where the key is missing
Cell(series, a) == IF a \in Range(series.index) THEN series.data[a] ELSE NaN

FillNa(x) == IF IsNaN(x) THEN Zero ELSE x

MetricColumns == {"roi", "total_pnl", "sharpe_ratio", "max_drawdown", "win_rate",
                  "win_positions", "total_positions"}

\* metrics.fillna(0)
FillNaRow(r) ==
    [Port_IDs |-> r.Port_IDs, roi |-> FillNa(r.roi), total_pnl |-> FillNa(r.total_pnl),
     sharpe_ratio |-> FillNa(r.sharpe_ratio), max_drawdown |-> FillNa(r.max_drawdown),
     win_rate |-> FillNa(r.win_rate), win_positions |-> FillNa(r.win_positions),
     total_positions |-> FillNa(r.total_positions)]

\* dropna() in place of fillna(0): a row holding a NaN is dropped
DropNaFrame(frame) ==
    SelectSeq(frame, LAMBDA r : \A c \in MetricColumns : ~IsNaN(r[c]))

\* the fillna(0) left out
NoFillFrame(frame) == frame

FillNaFrame(frame) == [i \in DOMAIN frame |-> FillNaRow(frame[i])]

\* the frame of calculate_metrics before the fillna
RawMetrics(df, sorted) ==
    The({The({[i \in DOMAIN index |->
                  LET a == index[i]
                      w == a \in Range(win.index)
                  IN  [Port_IDs |-> a, roi |-> Cell(roi, a), total_pnl |-> Cell(pnl, a),
                       sharpe_ratio |-> Cell(sharpe, a), max_drawdown |-> Cell(mdd, a),
                       win_rate |-> IF w THEN win.data[a].win_rate ELSE NaN,
                       win_positions |-> IF w THEN win.data[a].realizedProfit ELSE NaN,
                       total_positions |-> IF w THEN win.data[a].total_positions ELSE NaN]]
              : index \in {UnionIndexes(<<roi.index, pnl.index, sharpe.index, mdd.index>>)}})
         : roi \in {calculate_roi(df)}, pnl \in {calculate_pnl(df)},
           sharpe \in {calculate_sharpe_ratio(df)}, mdd \in {calculate_mdd(df, sorted)},
           win \in {calculate_win_rate(df)}})

calculate_metrics(df, sorted) ==
    The({FillNaFrame(frame) : frame \in {Tuple(RawMetrics(df, sorted))}})

(***************************************************************************)
(* ranking.py.                                                             *)
(***************************************************************************)
DefaultTopN == 20

\* df.replace([np.inf, -np.inf], 0) and then df.fillna(0)
Finite(x) == FillNa(IF IsInf(x) THEN Zero ELSE x)

CleanColumn(metrics_df, c) == [i \in DOMAIN metrics_df |-> Finite(metrics_df[i][c])]

\* scaling by the maximum alone in place of the spread
NormalizeColumnByMax(values) ==
    LET hi == RMaxSeq(values)
        lo == RMinSeq(values)
    IN  IF RNe(hi, lo)
        THEN [i \in DOMAIN values |-> RDiv(values[i], hi)]
        ELSE [i \in DOMAIN values |-> IF RLt(Zero, values[1]) THEN One ELSE Zero]

\* a column without spread given 0.5 throughout, as the fallback score of app.py does
NormalizeColumnHalf(values) ==
    LET hi == RMaxSeq(values)
        lo == RMinSeq(values)
    IN  IF RNe(hi, lo)
        THEN [i \in DOMAIN values |-> RDiv(RSub(values[i], lo), RSub(hi, lo))]
        ELSE [i \in DOMAIN values |-> <<1, 2>>]

\* min-max scaling of a higher-is-better column
NormalizeColumn(values) ==
    LET hi == RMaxSeq(values)
        lo == RMinSeq(values)
    IN  IF RNe(hi, lo)
        THEN [i \in DOMAIN values |-> RDiv(RSub(values[i], lo), RSub(hi, lo))]
        ELSE [i \in DOMAIN values |-> IF RLt(Zero, values[1]) THEN One ELSE Zero]

\* max_drawdown scaled like the other columns, the inversion left out
NormalizeMddNotInverted(mdd) ==
    LET hi == RMaxSeq(mdd)
        lo == RMinSeq(mdd)
    IN  IF RNe(hi, lo)
        THEN [i \in DOMAIN mdd |-> RDiv(RSub(mdd[i], lo), RSub(hi, lo))]
        ELSE [i \in DOMAIN mdd |-> One]

\* max_drawdown: lower is better
NormalizeMdd(mdd) ==
    LET hi == RMaxSeq(mdd)
        lo == RMinSeq(mdd)
    IN  IF RNe(hi, lo)
        THEN [i \in DOMAIN mdd |-> RSub(One, RDiv(RSub(mdd[i], lo), RSub(hi, lo)))]
        ELSE [i \in DOMAIN mdd |-> One]

normalize_metrics(metrics_df) ==
    LET roi == NormalizeColumn(CleanColumn(metrics_df, "roi"))
        pnl == NormalizeColumn(CleanColumn(metrics_df, "total_pnl"))
        sharpe == NormalizeColumn(CleanColumn(metrics_df, "sharpe_ratio"))
        win == NormalizeColumn(CleanColumn(metrics_df, "win_rate"))
        mdd == NormalizeMdd(CleanColumn(metrics_df, "max_drawdown"))
    IN  [i \in DOMAIN metrics_df |->
            [roi |-> roi[i], total_pnl |-> pnl[i], sharpe_ratio |-> sharpe[i],
             win_rate |-> win[i], max_drawdown |-> mdd[i]]]

\* the weights of the fallback score in app.py
AppWeights ==
    [roi |-> <<3, 10>>, total_pnl |-> <<1, 5>>, sharpe_ratio |-> <<1, 5>>,
     max_drawdown |-> <<1, 10>>, win_rate |-> <<1, 5>>]

\* max_drawdown weighted negatively on top of its inverted scale
WeightsDrawdownNegative ==
    [roi |-> <<1, 4>>, total_pnl |-> <<1, 5>>, sharpe_ratio |-> <<1, 5>>,
     max_drawdown |-> <<-3, 20>>, win_rate |-> <<1, 5>>]

get_feature_importance ==
    [roi |-> <<1, 4>>, total_pnl |-> <<1, 5>>, sharpe_ratio |-> <<1, 5>>,
     max_drawdown |-> <<3, 20>>, win_rate |-> <<1, 5>>]

\* the order in which the dict of weights is walked
WeightOrder == <<"roi", "total_pnl", "sharpe_ratio", "max_drawdown", "win_rate">>

RECURSIVE WeightedSum(_, _, _)
WeightedSum(normalized_row, weights, k) ==
    IF k = 0 THEN Zero
    ELSE RAdd(WeightedSum(normalized_row, weights, k - 1),
              RMul(normalized_row[WeightOrder[k]], weights[WeightOrder[k]]))

WeightedScores(normalized, weights) ==
    [i \in DOMAIN normalized |-> WeightedSum(normalized[i], weights, Len(WeightOrder))]

\* Series.round(2): to the nearest hundredth, a half going to the even neighbour
Round2(x) ==
    IF x[2] = 0 THEN x
    ELSE LET n == x[1] * 100
             fl == n \div x[2]
             twice == 2 * (n - fl * x[2])
             up == twice > x[2] \/ (twice = x[2] /\ fl % 2 = 1)
         IN  Norm(IF up THEN fl + 1 ELSE fl, 100)

RankingFrame(metrics_df, score) ==
        [i \in DOMAIN metrics_df |->
            [Port_IDs |-> metrics_df[i].Port_IDs,
             Score |-> score[i],
             ROI |-> Round2(metrics_df[i].roi),
             TotalPnL |-> Round2(metrics_df[i].total_pnl),
             SharpeRatio |-> Round2(metrics_df[i].sharpe_ratio),
             MaxDrawdown |-> Round2(metrics_df[i].max_drawdown),
             WinRate |-> Round2(metrics_df[i].win_rate),
             WinPositions |-> metrics_df[i].win_positions,
             TotalPositions |-> metrics_df[i].total_positions]]

\* sort_values('Score') without ascending=False: the lowest Score first
RECURSIVE ScoreOrdersAscending(_, _)
ScoreOrdersAscending(frame, I) ==
    IF I = {} THEN {<<>>}
    ELSE UNION {{<<i>> \o s : s \in ScoreOrdersAscending(frame, I \ {i})} :
                i \in {k \in I : \A j \in I : RLe(frame[k].Score, frame[j].Score)}}

\* sort_values('Score', ascending=False) uses the default quicksort, which is not
\* stable: rows of equal Score may come out in any order
RECURSIVE ScoreOrders(_, _)
ScoreOrders(frame, I) ==
    IF I = {} THEN {<<>>}
    ELSE UNION {{<<i>> \o s : s \in ScoreOrders(frame, I \ {i})} :
                i \in {k \in I : \A j \in I : RLe(frame[j].Score, frame[k].Score)}}

ScoreSortings(frame) == ScoreOrders(frame, DOMAIN frame)

\* head(n - 1): one row short
HeadRowsOneShort(s, n) ==
    IF n >= 1 THEN SubSeq(s, 1, IF n - 1 < Len(s) THEN n - 1 ELSE Len(s))
    ELSE SubSeq(s, 1, IF Len(s) + n - 1 > 0 THEN Len(s) + n - 1 ELSE 0)

\* DataFrame.head(n): the first n rows, or all but the last -n rows when n < 0
HeadRows(s, n) ==
    IF n >= 0 THEN SubSeq(s, 1, IF n < Len(s) THEN n ELSE Len(s))
    ELSE SubSeq(s, 1, IF Len(s) + n > 0 THEN Len(s) + n ELSE 0)

WithRank(r, k) ==
    [Rank |-> k, Port_IDs |-> r.Port_IDs, Score |-> r.Score, ROI |-> r.ROI,
     TotalPnL |-> r.TotalPnL, SharpeRatio |-> r.SharpeRatio, MaxDrawdown |-> r.MaxDrawdown,
     WinRate |-> r.WinRate, WinPositions |-> r.WinPositions,
     TotalPositions |-> r.TotalPositions]

\* the tail of rank_accounts: sort (q is the permutation the sort produced), head, Rank
SortHeadRank(frame, n, q) ==
    LET top == HeadRows(Permute(frame, q), n)
    IN  [k \in DOMAIN top |-> WithRank(top[k], k)]

rank_accounts(metrics_df, n, q) ==
    SortHeadRank(RankingFrame(metrics_df,
                              WeightedScores(normalize_metrics(metrics_df), get_feature_importance)),
                 n, q)

(***************************************************************************)
(* app.py: the score shown for the account selected in the sidebar.        *)
(***************************************************************************)
\* the weights of the score computed for an account outside the ranking
FallbackWeights ==
    [roi |-> <<3, 10>>, total_pnl |-> <<1, 5>>, sharpe_ratio |-> <<1, 5>>,
     win_rate |-> <<1, 5>>, max_drawdown |-> <<1, 10>>]

\* the normalized value of one metric of row i of the table
FallbackNormalized(all_metrics, i, metric) ==
    LET values == Column(all_metrics, metric)
        hi == RMaxSeq(values)
        lo == RMinSeq(values)
        scaled == RDiv(RSub(values[i], lo), RSub(hi, lo))
    IN  IF RNe(hi, lo)
        THEN (IF metric = "max_drawdown" THEN RSub(One, scaled) ELSE scaled)
        ELSE <<1, 2>>

\* sum(weights[metric] * normalized_metrics[metric] for metric in weights.keys())
FallbackScore(all_metrics, i) ==
    RSum([k \in DOMAIN WeightOrder |->
             RMul(FallbackWeights[WeightOrder[k]],
                  FallbackNormalized(all_metrics, i, WeightOrder[k]))])

\* rankings[rankings['Port_IDs'] == selected_account]
account_rank_info(a) == SelectSeq(rankings, LAMBDA r : r.Port_IDs = a)

\* the positions the label 'current' may take when the Scores of the ranking and the
\* score are sorted in descending order, ties in any order
RelativeRanks(score) ==
    {1 + Cardinality({k \in DOMAIN rankings : RLt(score, rankings[k].Score)}) + t :
        t \in 0..Cardinality({k \in DOMAIN rankings : REq(score, rankings[k].Score)})}

(***************************************************************************)
(* loader.py.  load_data is modelled from the list of trades parsed out of *)
(* the column Trade_History (a sequence of records, one per trade, the     *)
(* keys of the records being the columns of the frame); a cell that holds  *)
(* text in place of a number is the value Text.                            *)
(***************************************************************************)
Text == <<1, -1>>

\* milliseconds in a tick, TicksPerDay ticks making a day
MsPerTick == 43200000

\* pd.to_datetime(data['time'], unit='ms')
FromMs(t) == t \div MsPerTick

REQUIRED_COLUMNS ==
    <<"Port_IDs", "timestamp", "symbol", "side", "positionSide", "price", "quantity",
      "realizedProfit">>

column_mapping ==
    [Port_IDs |-> <<"port_ids", "account_id", "account">>,
     timestamp |-> <<"time", "date", "datetime">>,
     symbol |-> <<"asset", "pair", "trading_pair">>,
     side |-> <<"trade_side", "position">>,
     positionSide |-> <<"position_side", "trade_type">>,
     price |-> <<"trade_price", "execution_price">>,
     quantity |-> <<"amount", "size", "qty">>,
     realizedProfit |-> <<"pnl", "profit", "realized_profit">>]

\* data.columns
Columns(data) == IF Len(data) = 0 THEN {} ELSE DOMAIN data[1]

\* data.rename(columns={old: new})
RenameColumn(data, old, new) ==
    [i \in DOMAIN data |->
        [c \in (DOMAIN data[i] \ {old}) \cup {new} |->
            IF c = new THEN data[i][old] ELSE data[i][c]]]

\* data.drop(col, axis=1)
DropColumn(data, col) ==
    [i \in DOMAIN data |-> [c \in DOMAIN data[i] \ {col} |-> data[i][c]]]

\* the position of the first of the names that is a column, 0 when none is
FirstAlias(columns, names) ==
    LET hits == {k \in DOMAIN names : names[k] \in columns}
    IN  IF hits = {} THEN 0 ELSE CHOOSE k \in hits : \A j \in hits : k <= j

\* the loop of validate_columns over the first k required columns: a missing column
\* takes the name of its first alias present, or stays missing
RECURSIVE MapColumns(_, _)
MapColumns(data, k) ==
    IF k = 0 THEN [data |-> data, missing_columns |-> <<>>]
    ELSE LET done == MapColumns(data, k - 1)
             required_col == REQUIRED_COLUMNS[k]
             alt == FirstAlias(Columns(done.data), column_mapping[required_col])
         IN  IF required_col \in Columns(data) THEN done
             ELSE IF alt = 0
                  THEN [data |-> done.data,
                        missing_columns |-> Append(done.missing_columns, required_col)]
                  ELSE [data |-> RenameColumn(done.data, column_mapping[required_col][alt],
                                              required_col),
                        missing_columns |-> done.missing_columns]

validate_columns(data) ==
    LET mapped == MapColumns(data, Len(REQUIRED_COLUMNS))
    IN  [raised |-> IF mapped.missing_columns = <<>> THEN "none" ELSE "ValueError",
         data |-> mapped.data]

\* the columns inspect_dataset reads
InspectedColumns == {"Port_IDs", "timestamp", "symbol"}

\* data['timestamp'] = pd.to_datetime(data['time'], unit='ms'); data.drop('time')
TimeToTimestamp(data) ==
    IF "time" \in Columns(data)
    THEN DropColumn([i \in DOMAIN data |-> [timestamp |-> FromMs(data[i].time)] @@ data[i]],
                    "time")
    ELSE data

\* load_data from the parsed trades on: what is raised inside it, and the frame
load_data(trades_list) ==
    IF Len(trades_list) = 0 THEN [raised |-> "ValueError", data |-> trades_list]
    ELSE LET data == TimeToTimestamp(trades_list)
         IN  IF ~(InspectedColumns \subseteq Columns(data))
             THEN [raised |-> "KeyError", data |-> data]
             ELSE validate_columns(data)

classify_trade(row) ==
    IF row.positionSide = "BOTH" THEN (IF row.side = "BUY" THEN "buy" ELSE "sell")
    ELSE IF row.side = "BUY"
         THEN (IF row.positionSide = "LONG" THEN "long_open" ELSE "short_close")
         ELSE (IF row.positionSide = "LONG" THEN "long_close" ELSE "short_open")

\* one row of clean_data; the column timestamp holds datetimes already, which
\* pd.to_datetime leaves as they are
CleanRow(row) ==
    LET typed == IF "side" \in DOMAIN row THEN [trade_type |-> classify_trade(row)] @@ row
                 ELSE row
        valued == IF "quantity" \in DOMAIN typed
                  THEN [money_value |-> typed.quantity] @@ typed ELSE typed
        counted == IF "qty" \in DOMAIN valued
                   THEN [coin_amount |-> valued.qty] @@ valued ELSE valued
    IN  IF {"price", "coin_amount"} \subseteq DOMAIN counted /\ "money_value" \notin DOMAIN counted
        THEN [money_value |-> RMul(counted.price, counted.coin_amount)] @@ counted
        ELSE counted

clean_data(data) == [i \in DOMAIN data |-> CleanRow(data[i])]

\* pd.to_numeric(errors='coerce') of preprocess_trades: text becomes NaN
ToNumeric(x) == IF x = Text THEN NaN ELSE x

\* to_numeric and then fillna(0) of handle_missing_values
Coerced(x) == FillNa(ToNumeric(x))

NumericColumns == {"price", "quantity", "realizedProfit"}

(***************************************************************************)
(* The program: calculate_metrics on the trade frame, then rank_accounts   *)
(* on the table it returned.                                               *)
(***************************************************************************)
TradeRow(a, t, v) == [Port_IDs |-> a, timestamp |-> t, realizedProfit |-> v[1], quantity |-> v[2]]

TradeRows == {TradeRow(a, t, v) : a \in Accounts, t \in Times, v \in TradeValues}

\* the frames of n trades
Datasets(n) == [1..n -> TradeRows]

AccountRows == {TradeRow(1, t, v) : t \in AccountTimes, v \in AccountValues}

MetricsCells ==
    [roi : RoiValues, total_pnl : PnlValues, sharpe_ratio : SharpeValues,
     max_drawdown : MddValues, win_rate : WinRateValues]

MetricsRow(a, c) ==
    [Port_IDs |-> a, roi |-> c.roi, total_pnl |-> c.total_pnl, sharpe_ratio |-> c.sharpe_ratio,
     max_drawdown |-> c.max_drawdown, win_rate |-> c.win_rate,
     win_positions |-> Zero, total_positions |-> One]

\* the tables of n accounts, indexed 1, 2, ... in ascending order
MetricsTables(n) ==
    {[i \in 1..n |-> MetricsRow(i, cells[i])] : cells \in [1..n -> MetricsCells]}

TopNs == (-NegTopN..MaxTopN) \cup {DefaultTopN}

\* rank_accounts called without weights of the caller's
NoWeights == <<>>
\* the account filter of app.py set to "All Accounts", and no rank or score shown
AllAccounts == 0
NoRank == [rank |-> 0, in_top |-> FALSE]
NoScore == <<>>

\* the state before the first call, but for the frame of trades
Fresh ==
    /\ metrics = <<>>
    /\ normalized_metrics = <<>>
    /\ weighted_scores = <<>>
    /\ rankings = <<>>
    /\ top_n = 0
    /\ raised = "none"
    /\ mdd_sort = [frame |-> <<>>, sorted |-> <<>>]
    /\ score_sort = <<>>
    /\ run = 1
    /\ prev_metrics = <<>>
    /\ prev_rankings = <<>>
    /\ call_weights = NoWeights
    /\ selected_account = AllAccounts
    /\ rank_display = NoRank
    /\ score_display = NoScore

Init ==
    /\ \E n \in 0..MaxTrades : trades \in Datasets(n)
    /\ pc = "start"
    /\ Fresh

\* the trades of one account
InitAccount ==
    /\ \E n \in 0..MaxAccountTrades : trades \in [1..n -> AccountRows]
    /\ pc = "start"
    /\ Fresh

\* the frames the pipeline is run on twice
InitTwice ==
    /\ \E n \in 0..MaxTwiceTrades : trades \in Datasets(n)
    /\ pc = "start"
    /\ Fresh

\* rank_accounts called on a table of its own
InitRank ==
    /\ trades = <<>>
    /\ \E n \in 0..MaxRows : metrics \in MetricsTables(n)
    /\ normalized_metrics = <<>>
    /\ weighted_scores = <<>>
    /\ rankings = <<>>
    /\ top_n = 0
    /\ pc = "metrics"
    /\ raised = "none"
    /\ mdd_sort = [frame |-> <<>>, sorted |-> <<>>]
    /\ score_sort = <<>>
    /\ run = 1
    /\ prev_metrics = <<>>
    /\ prev_rankings = <<>>
    /\ call_weights = NoWeights
    /\ selected_account = AllAccounts
    /\ rank_display = NoRank
    /\ score_display = NoScore

\* the names the parsed trades give to the time, the symbol and the profit, and
\* whether they carry a price
Layouts ==
    [time : {"time", "date"}, symbol : {"symbol", "asset"},
     realizedProfit : {"realizedProfit", "pnl"}, price : BOOLEAN]

\* milliseconds since the epoch: the first day and the day after it
ParsedTimes == {0, TicksPerDay * MsPerTick}
ParsedProfits == {<<1, 1>>, <<-1, 1>>, Text}
ParsedQuantities == {<<1, 1>>, Text}

\* a trade of the list, with the key Port_IDs that load_data gives it
ParsedTrade(layout, a, t, profit, qty) ==
    (layout.time :> t) @@ (layout.symbol :> "BTCUSDT") @@ (layout.realizedProfit :> profit)
    @@ (IF layout.price THEN [price |-> One] ELSE <<>>)
    @@ [Port_IDs |-> a, side |-> "BUY", positionSide |-> "LONG", quantity |-> qty]

ParsedTrades(layout) ==
    {ParsedTrade(layout, a, t, profit, qty) :
        a \in {1, 2}, t \in ParsedTimes, profit \in ParsedProfits, qty \in ParsedQuantities}

\* load_data with the trades parsed and the frame not yet built
InitLoad ==
    /\ \E n \in 0..MaxParsedTrades : \E layout \in Layouts :
           trades \in [1..n -> ParsedTrades(layout)]
    /\ pc = "uploaded"
    /\ Fresh

\* load_data(uploaded_file): the frame, or st.error and st.stop
LoadData ==
    /\ pc = "uploaded"
    /\ LET loaded == load_data(trades)
       IN  IF loaded.raised = "none"
           THEN /\ trades' = loaded.data
                /\ pc' = "loaded"
                /\ UNCHANGED raised
           ELSE /\ pc' = "stopped"
                /\ raised' = loaded.raised
                /\ UNCHANGED trades
    /\ UNCHANGED <<metrics, normalized_metrics, weighted_scores, rankings, top_n,
                   mdd_sort, score_sort, run, prev_metrics, prev_rankings,
                   call_weights, selected_account, rank_display, score_display>>

\* trades_data = clean_data(data)
CleanData ==
    /\ pc = "loaded"
    /\ trades' = clean_data(trades)
    /\ pc' = "start"
    /\ UNCHANGED <<metrics, normalized_metrics, weighted_scores, rankings, top_n, raised,
                   mdd_sort, score_sort, run, prev_metrics, prev_rankings,
                   call_weights, selected_account, rank_display, score_display>>

\* a cell of text in a column that calculate_roi sums and divides
HasText(df) == \E i \in DOMAIN df : df[i].realizedProfit = Text \/ df[i].quantity = Text

\* calculate_metrics(trades_df) on a frame with text among the numbers: the sum or
\* the division of calculate_roi raises, and nothing catches it
CalculateMetricsTypeError ==
    /\ pc = "start"
    /\ Len(trades) # 0
    /\ HasText(trades)
    /\ pc' = "raised"
    /\ raised' = "TypeError"
    /\ UNCHANGED <<trades, metrics, normalized_metrics, weighted_scores, rankings, top_n,
                   mdd_sort, score_sort, run, prev_metrics, prev_rankings,
                   call_weights, selected_account, rank_display, score_display>>

\* an empty frame answered with an empty table in place of the error
CalculateMetricsEmptyTable ==
    /\ pc = "start"
    /\ Len(trades) = 0
    /\ pc' = "metrics"
    /\ metrics' = <<>>
    /\ UNCHANGED <<trades, normalized_metrics, weighted_scores, rankings, top_n, raised,
                   mdd_sort, score_sort, run, prev_metrics, prev_rankings,
                   call_weights, selected_account, rank_display, score_display>>

\* calculate_metrics(trades_df) on an empty frame
CalculateMetricsEmpty ==
    /\ pc = "start"
    /\ Len(trades) = 0
    /\ pc' = "raised"
    /\ raised' = "ValueError"
    /\ UNCHANGED <<trades, metrics, normalized_metrics, weighted_scores, rankings, top_n,
                   mdd_sort, score_sort, run, prev_metrics, prev_rankings,
                   call_weights, selected_account, rank_display, score_display>>

\* calculate_metrics(trades_df) on a frame with rows
CalculateMetrics ==
    /\ pc = "start"
    /\ Len(trades) # 0
    /\ \E frame \in {WithDate(trades)} : \E sorted \in SortResults(frame) :
          \* the sort is a function: rows sorted before are sorted to the same outcome
          /\ (run = 2 /\ frame = mdd_sort.frame) => sorted = mdd_sort.sorted
          /\ metrics' = calculate_metrics(trades, sorted)
          /\ mdd_sort' = [frame |-> frame, sorted |-> sorted]
    /\ trades' = WithDate(trades)
    /\ pc' = "metrics"
    /\ UNCHANGED <<normalized_metrics, weighted_scores, rankings, top_n, raised,
                   score_sort, run, prev_metrics, prev_rankings,
                   call_weights, selected_account, rank_display, score_display>>

\* rank_accounts cleaning the table it is given in place, no copy taken
RankAccountsInPlace ==
    /\ pc = "metrics"
    /\ \E normalized \in {normalize_metrics(metrics)} :
          \E score \in {WeightedScores(normalized, get_feature_importance)} :
             \E frame \in {RankingFrame(metrics, score)} :
                \E q \in ScoreSortings(frame) : \E n \in TopNs :
                    /\ normalized_metrics' = normalized
                    /\ weighted_scores' = score
                    /\ rankings' = SortHeadRank(frame, n, q)
                    /\ top_n' = n
                    /\ score_sort' = q
    /\ metrics' = [i \in DOMAIN metrics |->
                      [c \in DOMAIN metrics[i] |->
                          IF c = "Port_IDs" THEN metrics[i][c] ELSE Finite(metrics[i][c])]]
    /\ pc' = "ranked"
    /\ UNCHANGED <<trades, raised, mdd_sort, run, prev_metrics, prev_rankings,
                   call_weights, selected_account, rank_display, score_display>>

\* rank_accounts refusing a table without rows, as calculate_metrics refuses a frame
\* without rows
RankAccountsRejectEmpty ==
    /\ pc = "metrics"
    /\ IF Len(metrics) = 0
       THEN /\ \E n \in TopNs : top_n' = n
            /\ pc' = "raised"
            /\ raised' = "ValueError"
            /\ UNCHANGED <<normalized_metrics, weighted_scores, rankings, score_sort>>
       ELSE /\ \E normalized \in {normalize_metrics(metrics)} :
                  \E score \in {WeightedScores(normalized, get_feature_importance)} :
                     \E frame \in {RankingFrame(metrics, score)} :
                        \E q \in ScoreSortings(frame) : \E n \in TopNs :
                            /\ normalized_metrics' = normalized
                            /\ weighted_scores' = score
                            /\ rankings' = SortHeadRank(frame, n, q)
                            /\ top_n' = n
                            /\ score_sort' = q
            /\ pc' = "ranked"
            /\ UNCHANGED raised
    /\ UNCHANGED <<trades, metrics, mdd_sort, run, prev_metrics, prev_rankings,
                   call_weights, selected_account, rank_display, score_display>>

\* rank_accounts(metrics, top_n) on the table in metrics
RankAccounts ==
    /\ pc = "metrics"
    /\ \E normalized \in {normalize_metrics(metrics)} :
          \E score \in {WeightedScores(normalized, get_feature_importance)} :
             \E frame \in {RankingFrame(metrics, score)} :
                \E q \in ScoreSortings(frame) : \E n \in TopNs :
                    \* the second run is given the top_n of the first, and a Score
                    \* column sorted before is sorted to the same outcome
                    /\ run = 2 => n = top_n
                    /\ (run = 2 /\ score = weighted_scores) => q = score_sort
                    /\ normalized_metrics' = normalized
                    /\ weighted_scores' = score
                    /\ rankings' = SortHeadRank(frame, n, q)
                    /\ top_n' = n
                    /\ score_sort' = q
    /\ pc' = "ranked"
    /\ UNCHANGED <<trades, metrics, raised, mdd_sort, run, prev_metrics, prev_rankings,
                   call_weights, selected_account, rank_display, score_display>>

\* the pipeline run once more on the frame and with the top_n of the first run
Rerun ==
    /\ pc = "ranked"
    /\ run = 1
    /\ run' = 2
    /\ prev_metrics' = metrics
    /\ prev_rankings' = rankings
    /\ pc' = "start"
    /\ UNCHANGED <<trades, metrics, normalized_metrics, weighted_scores, rankings, top_n,
                   raised, mdd_sort, score_sort,
                   call_weights, selected_account, rank_display, score_display>>

\* the orders in which n rows can be handed over
RowOrders(n) == {q \in [1..n -> 1..n] : \A i, j \in 1..n : i # j => q[i] # q[j]}

\* calculate_metrics called once more, on the same trade records in another row order
RerunPermuted ==
    /\ pc = "metrics"
    /\ run = 1
    /\ \E q \in RowOrders(Len(trades)) : trades' = Permute(trades, q)
    /\ run' = 2
    /\ prev_metrics' = metrics
    /\ pc' = "start"
    /\ UNCHANGED <<metrics, normalized_metrics, weighted_scores, rankings, top_n, raised,
                   mdd_sort, score_sort, prev_rankings,
                   call_weights, selected_account, rank_display, score_display>>

\* an account chosen in the sidebar: its rank and score as the sidebar shows them,
\* the score in the format .2f
SelectAccount ==
    /\ pc = "ranked"
    /\ \E a \in {metrics[i].Port_IDs : i \in DOMAIN metrics} :
          /\ selected_account' = a
          /\ \E info \in {account_rank_info(a)} :
                IF info # <<>>
                THEN /\ rank_display' = [rank |-> info[1].Rank, in_top |-> TRUE]
                     /\ score_display' = Round2(info[1].Score)
                ELSE \E score \in {FallbackScore(metrics, CHOOSE i \in DOMAIN metrics :
                                                              metrics[i].Port_IDs = a)} :
                        /\ \E relative_rank \in RelativeRanks(score) :
                              rank_display' = [rank |-> relative_rank, in_top |-> FALSE]
                        /\ score_display' = Round2(score)
    /\ pc' = "displayed"
    /\ UNCHANGED <<trades, metrics, normalized_metrics, weighted_scores, rankings, top_n,
                   raised, mdd_sort, score_sort, run, prev_metrics, prev_rankings,
                   call_weights>>

\* the weights a caller may try to hand to rank_accounts: roi and max_drawdown each a
\* fifth, negative, or not a number
WeightChoices == {<<1, 5>>, <<-1, 5>>, NaN}

WeightSets ==
    {[roi |-> r, total_pnl |-> <<1, 5>>, sharpe_ratio |-> <<1, 5>>,
      max_drawdown |-> d, win_rate |-> <<1, 5>>] : r, d \in WeightChoices}

\* rank_accounts called on a table of its own, with weights of the caller's
InitWeights ==
    /\ trades = <<>>
    /\ \E n \in 0..MaxRows : metrics \in MetricsTables(n)
    /\ normalized_metrics = <<>>
    /\ weighted_scores = <<>>
    /\ rankings = <<>>
    /\ top_n = 0
    /\ pc = "metrics"
    /\ raised = "none"
    /\ mdd_sort = [frame |-> <<>>, sorted |-> <<>>]
    /\ score_sort = <<>>
    /\ run = 1
    /\ prev_metrics = <<>>
    /\ prev_rankings = <<>>
    /\ \E w \in WeightSets : call_weights = <<w>>
    /\ selected_account = AllAccounts
    /\ rank_display = NoRank
    /\ score_display = NoScore

\* rank_accounts(metrics, top_n, weights): the function takes no third argument, the
\* call fails before the body is entered
RankAccountsGivenWeights ==
    /\ pc = "metrics"
    /\ call_weights # NoWeights
    /\ \E n \in TopNs : top_n' = n
    /\ pc' = "raised"
    /\ raised' = "TypeError"
    /\ UNCHANGED <<trades, metrics, normalized_metrics, weighted_scores, rankings,
                   mdd_sort, score_sort, run, prev_metrics, prev_rankings,
                   call_weights, selected_account, rank_display, score_display>>

NextMetrics == CalculateMetricsEmpty \/ CalculateMetrics

NextRank == RankAccounts

Next == CalculateMetricsEmpty \/ CalculateMetrics \/ RankAccounts

NextTwice == CalculateMetricsEmpty \/ CalculateMetrics \/ RankAccounts \/ Rerun

\* the pipeline of app.py: calculate_metrics, then rank_accounts
Spec == Init /\ [][Next]_vars

\* calculate_metrics alone
SpecMetrics == Init /\ [][NextMetrics]_vars

\* rank_accounts alone, on any table
SpecRank == InitRank /\ [][NextRank]_vars

\* calculate_metrics on the trades of one account
SpecAccount == InitAccount /\ [][NextMetrics]_vars

\* the pipeline run twice on one frame
SpecTwice == InitTwice /\ [][NextTwice]_vars

NextSelect == CalculateMetricsEmpty \/ CalculateMetrics \/ RankAccounts \/ SelectAccount

\* the pipeline of app.py and the account selected in the sidebar
SpecSelect == InitTwice /\ [][NextSelect]_vars

NextWeights == RankAccountsGivenWeights

\* rank_accounts called with weights
SpecWeights == InitWeights /\ [][NextWeights]_vars

\* calculate_metrics(trades_df) on a frame with rows, all of them numbers
CalculateMetricsNumeric == pc = "start" /\ ~HasText(trades) /\ CalculateMetrics

NextLoad == LoadData \/ CleanData \/ CalculateMetricsNumeric \/ CalculateMetricsTypeError

\* load_data, clean_data and calculate_metrics as app.py calls them
SpecLoad == InitLoad /\ [][NextLoad]_vars

NextPermuted == CalculateMetricsEmpty \/ CalculateMetrics \/ RerunPermuted

\* calculate_metrics on a frame, and then on its rows in another order
SpecPermuted == InitTwice /\ [][NextPermuted]_vars

(***************************************************************************)
(* Claims about calculate_metrics (SpecMetrics).                           *)
(***************************************************************************)
IndexOf(frame) == {frame[i].Port_IDs : i \in DOMAIN frame}

\* C1: for a non-empty trade dataset calculate_metrics returns (it never raises), and
\* the table it returns has exactly one row for each distinct account id of the input:
\* none omitted, none duplicated, none invented.
C1_OneRowPerAccount ==
    /\ pc = "raised" => Len(trades) = 0
    /\ pc = "metrics" =>
          /\ IndexOf(metrics) = PortIDs(trades)
          /\ Len(metrics) = Cardinality(PortIDs(trades))

\* a table was returned for a dataset with an account of a single trade, an account of
\* zero total quantity and an account whose drawdown series is all NaN
C1_Witness ==
    /\ pc = "metrics"
    /\ Len(metrics) >= 2
    /\ \E a \in PortIDs(trades) : TotalPositions(trades, a) = 1
    /\ \E a \in PortIDs(trades) : SumOf(trades, a, "quantity") = Zero
    /\ \E a \in PortIDs(trades) : IsNaN(MddValue(PortRows(trades, a)))

C3_EmptyDatasetRaises ==
    Len(trades) = 0 =>
        /\ pc \in {"start", "raised"}
        /\ metrics = <<>>
        /\ pc = "raised" => raised = "ValueError"
        /\ pc = "start" => ENABLED CalculateMetricsEmpty

\* the call on the empty dataset has failed
C3_Witness == Len(trades) = 0 /\ pc = "raised" /\ raised = "ValueError"

(***************************************************************************)
(* Claims about rank_accounts (SpecRank) and the pipeline (Spec).          *)
(***************************************************************************)
\* the row of the table that holds account a
RowOf(frame, a) == CHOOSE i \in DOMAIN frame : frame[i].Port_IDs = a

InUnit(x) == RLe(Zero, x) /\ RLe(x, One)

\* C4: rank_accounts called with top_n <= 0 fails with an InvalidParameterError and
\* returns no ranking.
C4_NonPositiveTopNFails ==
    (pc # "metrics" /\ top_n <= 0) =>
        (pc = "raised" /\ raised = "InvalidParameterError" /\ rankings = <<>>)

\* C5: for top_n >= 1 and a table of a accounts the ranking has exactly min(top_n, a)
\* entries, in non-increasing order of Score, with Rank 1, 2, ..., k in that order.
C5_TopNRanksContiguous ==
    (pc = "ranked" /\ top_n >= 1) =>
        /\ Len(rankings) = (IF top_n < Len(metrics) THEN top_n ELSE Len(metrics))
        /\ \A k \in DOMAIN rankings : rankings[k].Rank = k
        /\ \A j, k \in DOMAIN rankings : j < k => RLe(rankings[k].Score, rankings[j].Score)

\* a ranking cut to fewer entries than the table has accounts, of differing Score
C5_Witness ==
    /\ pc = "ranked"
    /\ top_n >= 1
    /\ top_n < Len(metrics)
    /\ Len(rankings) = top_n
    /\ \E i \in DOMAIN metrics : RLt(weighted_scores[i], rankings[1].Score)

\* rows of equal Score stand in the ranking in the order they have in the table
TiesInTableOrder ==
    \A j, k \in DOMAIN rankings :
        (j < k /\ REq(rankings[j].Score, rankings[k].Score)) =>
            RowOf(metrics, rankings[j].Port_IDs) < RowOf(metrics, rankings[k].Port_IDs)

\* C6: accounts of equal Score stand in the ranking in the order of their rows in the
\* table passed in (the sort is stable).
C6_TiesKeepTableOrder == pc = "ranked" => TiesInTableOrder

\* the first row of trades that belongs to account a
FirstTrade(df, a) == CHOOSE i \in DOMAIN df : df[i].Port_IDs = a /\ \A j \in 1..(i - 1) : df[j].Port_IDs # a

\* C7: in the pipeline, accounts that end with equal Score are ranked in the order in
\* which they first appear in the trade dataset, not in the order of their ids.  Stated
\* for the runs in which the sort left ties in table order, the outcome that favours
\* the claim most.
C7_TiesKeepInputOrder ==
    (pc = "ranked" /\ TiesInTableOrder) =>
        \A j, k \in DOMAIN rankings :
            (j < k /\ REq(rankings[j].Score, rankings[k].Score)) =>
                FirstTrade(trades, rankings[j].Port_IDs) < FirstTrade(trades, rankings[k].Port_IDs)

\* C8: the Score of every account of the table lies in [0, 1], as does every
\* normalized value it is made of.
C8_ScoreInUnitInterval ==
    pc = "ranked" =>
        /\ \A k \in DOMAIN rankings : InUnit(rankings[k].Score)
        /\ \A i \in DOMAIN metrics :
              /\ InUnit(weighted_scores[i])
              /\ \A c \in DOMAIN get_feature_importance : InUnit(normalized_metrics[i][c])

\* a ranking holding the Score 1 and a Score strictly inside the interval, over a
\* table with a non-finite cell
C8_Witness ==
    /\ pc = "ranked"
    /\ \E k \in DOMAIN rankings : rankings[k].Score = One
    /\ \E k \in DOMAIN rankings : RLt(Zero, rankings[k].Score) /\ RLt(rankings[k].Score, One)
    /\ \E i \in DOMAIN metrics : ~IsFinite(metrics[i].sharpe_ratio)

\* C9: Score = 0.25 norm(roi) + 0.20 norm(total_pnl) + 0.20 norm(sharpe_ratio)
\* + 0.15 norm(max_drawdown) + 0.20 norm(win_rate), and the five weights sum to 1.
C9_ScoreIsWeightedSum ==
    pc = "ranked" =>
        /\ \A k \in DOMAIN rankings :
              LET n == normalized_metrics[RowOf(metrics, rankings[k].Port_IDs)]
              IN  rankings[k].Score =
                    RSum(<<RMul(<<25, 100>>, n.roi), RMul(<<20, 100>>, n.total_pnl),
                           RMul(<<20, 100>>, n.sharpe_ratio), RMul(<<15, 100>>, n.max_drawdown),
                           RMul(<<20, 100>>, n.win_rate)>>)
        /\ RSum([k \in DOMAIN WeightOrder |-> get_feature_importance[WeightOrder[k]]]) = One

\* a ranked account whose normalized values differ from one another, so that the
\* weights decide its Score
C9_Witness ==
    /\ pc = "ranked"
    /\ \E k \in DOMAIN rankings :
          LET n == normalized_metrics[RowOf(metrics, rankings[k].Port_IDs)]
          IN  n.roi = One /\ n.total_pnl = Zero /\ n.max_drawdown = Zero /\ n.win_rate = One

\* the cells of column c as normalize_metrics reads them
Cleaned(c) == CleanColumn(metrics, c)

\* C10: in a column whose values are not all equal, the accounts at the minimum
\* normalize to 0 and those at the maximum to 1 (roi, total_pnl, sharpe_ratio,
\* win_rate); for max_drawdown the minimum normalizes to 1 and the maximum to 0.
C10_MinMaxEndpoints ==
    pc = "ranked" =>
        \A c \in DOMAIN get_feature_importance :
            \A v \in {Cleaned(c)} : \A hi \in {RMaxSeq(v)} : \A lo \in {RMinSeq(v)} :
                LET best == IF c = "max_drawdown" THEN lo ELSE hi
                    worst == IF c = "max_drawdown" THEN hi ELSE lo
                IN  (Len(metrics) > 0 /\ hi # lo) =>
                        \A i \in DOMAIN metrics :
                            /\ v[i] = best => normalized_metrics[i][c] = One
                            /\ v[i] = worst => normalized_metrics[i][c] = Zero

\* a table in which max_drawdown and roi both vary
C10_Witness ==
    /\ pc = "ranked"
    /\ Len(metrics) >= 2
    /\ RMaxSeq(Cleaned("max_drawdown")) # RMinSeq(Cleaned("max_drawdown"))
    /\ RMaxSeq(Cleaned("roi")) # RMinSeq(Cleaned("roi"))

\* C11: a column in which every account has the same value (a single account
\* included) is normalized without a division by zero: roi, total_pnl, sharpe_ratio
\* and win_rate give every account 1 when the shared value is > 0 and 0 otherwise,
\* max_drawdown gives every account 1.
C11_NoSpreadColumns ==
    pc = "ranked" =>
        \A c \in DOMAIN get_feature_importance :
            \A v \in {Cleaned(c)} :
                (Len(metrics) > 0 /\ \A i \in DOMAIN v : v[i] = v[1]) =>
                    \A i \in DOMAIN metrics :
                        normalized_metrics[i][c] =
                            IF c = "max_drawdown" THEN One
                            ELSE IF RLt(Zero, v[1]) THEN One ELSE Zero

\* a table of two accounts that share a negative roi, a positive total_pnl and a
\* max_drawdown
C11_Witness ==
    /\ pc = "ranked"
    /\ Len(metrics) = 2
    /\ metrics[1].roi = metrics[2].roi /\ RLt(metrics[1].roi, Zero)
    /\ metrics[1].total_pnl = metrics[2].total_pnl /\ RLt(Zero, metrics[1].total_pnl)
    /\ metrics[1].max_drawdown = metrics[2].max_drawdown
    /\ normalized_metrics[1].roi = Zero /\ normalized_metrics[2].total_pnl = One

(***************************************************************************)
(* Claims about the single metrics (SpecMetrics).                          *)
(***************************************************************************)
\* C12: roi = 100 * sum(realizedProfit) / sum(quantity) over the trades of the
\* account when sum(quantity) # 0, and roi = 0 when sum(quantity) = 0, whatever the
\* profits.
C12_RoiIsProfitOverQuantity ==
    pc = "metrics" =>
        \A i \in DOMAIN metrics :
            \A rows \in {PortRows(trades, metrics[i].Port_IDs)} :
                \A profit \in {RSum([k \in DOMAIN rows |-> rows[k].realizedProfit])} :
                    \A qty \in {RSum([k \in DOMAIN rows |-> rows[k].quantity])} :
                        metrics[i].roi =
                            IF qty = Zero THEN Zero ELSE RDiv(RMul(Hundred, profit), qty)

\* an account without quantity but with profit, next to an account whose roi is not 0
C12_Witness ==
    /\ pc = "metrics"
    /\ \E i, j \in DOMAIN metrics :
          /\ SumOf(trades, metrics[i].Port_IDs, "quantity") = Zero
          /\ SumOf(trades, metrics[i].Port_IDs, "realizedProfit") # Zero
          /\ metrics[i].roi = Zero
          /\ SumOf(trades, metrics[j].Port_IDs, "quantity") # Zero
          /\ metrics[j].roi # Zero

(***************************************************************************)
(* Claims about the metrics of one account (SpecAccount).                  *)
(***************************************************************************)
\* the calendar dates on which the rows fall
DatesOf(rows) == {DateOf(rows[k].timestamp) : k \in DOMAIN rows}

\* the sum of the profits of the rows that fall on date d
ProfitOn(rows, d) ==
    RSum(Column(SelectSeq(rows, LAMBDA r : DateOf(r.timestamp) = d), "realizedProfit"))

\* C13: an account whose trades fall on fewer than 2 distinct calendar dates has
\* sharpe_ratio = 0, and so has an account whose per-date profit sums are all equal.
C13_NoSharpeWithoutVariation ==
    pc = "metrics" =>
        \A i \in DOMAIN metrics :
            \A rows \in {PortRows(trades, metrics[i].Port_IDs)} :
                \A dates \in {DatesOf(rows)} :
                    (\/ Cardinality(dates) < 2
                     \/ \A d, e \in dates : ProfitOn(rows, d) = ProfitOn(rows, e))
                        => metrics[i].sharpe_ratio = Zero

\* C14: an account with exactly one trade has max_drawdown = 0 in the table of
\* calculate_metrics, whatever the realized profit of the trade (positive, zero,
\* negative, or the -1 that makes the cumulative product 0).
C14_SingleTradeNoDrawdown ==
    pc = "metrics" =>
        \A i \in DOMAIN metrics :
            Len(PortRows(trades, metrics[i].Port_IDs)) = 1 => metrics[i].max_drawdown = Zero

\* a single trade of profit -1, whose drawdown calculate_mdd leaves undefined
C14_Witness ==
    /\ pc = "metrics"
    /\ Len(trades) = 1
    /\ trades[1].realizedProfit = <<-1, 1>>
    /\ IsNaN(MddValue(mdd_sort.sorted[1]))
    /\ metrics[1].max_drawdown = Zero

\* C15: win_positions is the number of trades of the account with realized profit
\* > 0, total_positions the number of its trades, win_rate = 100 * win_positions /
\* total_positions; so win_positions <= total_positions and 0 <= win_rate <= 100.
C15_WinRateIsShareOfWins ==
    \* 6 wins in 10 trades, by the expression of the code
    /\ RMul(RDiv(R(6), R(10)), Hundred) = <<60, 1>>
    /\ pc = "metrics" =>
        \A i \in DOMAIN metrics :
            \A rows \in {PortRows(trades, metrics[i].Port_IDs)} :
                \A wins \in {Cardinality({k \in DOMAIN rows : rows[k].realizedProfit[1] > 0})} :
                    /\ metrics[i].win_positions = <<wins, 1>>
                    /\ metrics[i].total_positions = <<Len(rows), 1>>
                    /\ metrics[i].win_rate = Norm(100 * wins, Len(rows))
                    /\ RLe(metrics[i].win_positions, metrics[i].total_positions)
                    /\ RLe(Zero, metrics[i].win_rate) /\ RLe(metrics[i].win_rate, Hundred)

\* an account with a winning trade, a losing trade and a trade without profit
C15_Witness ==
    /\ pc = "metrics"
    /\ Len(trades) = 3
    /\ \E j, k, l \in DOMAIN trades :
          /\ RLt(Zero, trades[j].realizedProfit)
          /\ trades[k].realizedProfit = Zero
          /\ RLt(trades[l].realizedProfit, Zero)
    /\ metrics[1].win_positions = One
    /\ metrics[1].win_rate = <<100, 3>>

(***************************************************************************)
(* Claims about calculate_metrics and its parts (SpecMetrics).             *)
(***************************************************************************)
\* C16: each metric function taken on its own returns a finite number for every
\* account, without the fillna of calculate_metrics.
C16_EachFunctionFinite ==
    pc = "metrics" =>
        \A roi \in {calculate_roi(trades)} : \A pnl \in {calculate_pnl(trades)} :
        \A sharpe \in {calculate_sharpe_ratio(trades)} :
        \A mdd \in {calculate_mdd(trades, mdd_sort.sorted)} :
        \A win \in {calculate_win_rate(trades)} :
            \A a \in PortIDs(trades) :
                /\ IsFinite(roi.data[a])
                /\ IsFinite(pnl.data[a])
                /\ IsFinite(sharpe.data[a])
                /\ IsFinite(mdd.data[a])
                /\ IsFinite(win.data[a].win_rate)

\* C17: calculate_metrics leaves the frame of trades it is given as it was: same
\* rows, same columns, same values.
C17_InputUnchanged == [][trades' = trades]_vars

(***************************************************************************)
(* Claims about the table given to rank_accounts (SpecRank).               *)
(***************************************************************************)
\* C18: rank_accounts and normalize_metrics leave the metrics table they are given
\* as it was, non-finite values included; the normalized values are a copy.
C18_TableUnchanged == [][metrics' = metrics]_vars

\* a ranked table that still holds its non-finite cells, next to the normalized copy
C18_Witness ==
    /\ pc = "ranked"
    /\ \E i \in DOMAIN metrics :
          /\ IsInf(metrics[i].sharpe_ratio)
          /\ IsFinite(normalized_metrics[i].sharpe_ratio)
    /\ \E i \in DOMAIN metrics :
          /\ IsNaN(metrics[i].win_rate)
          /\ IsFinite(normalized_metrics[i].win_rate)

(***************************************************************************)
(* Claims about runs compared with one another (SpecTwice, SpecMetrics).   *)
(***************************************************************************)
\* C19: the pipeline run a second time on the frame the first run has processed
\* yields the same metrics table and the same ranking.
C19_SecondRunIdentical ==
    run = 2 =>
        /\ pc \in {"metrics", "ranked"} => metrics = prev_metrics
        /\ pc = "ranked" => rankings = prev_rankings

\* a second run completed on a frame that carries the column date, with two
\* accounts of equal Score in the ranking
C19_Witness ==
    /\ run = 2
    /\ pc = "ranked"
    /\ \A i \in DOMAIN trades : "date" \in DOMAIN trades[i]
    /\ Len(rankings) = 2
    /\ rankings[1].Score = rankings[2].Score

\* C20: the metrics row of an account depends on the trades of that account alone:
\* it is the row calculate_metrics gives for the frame cut down to the account, so
\* any two frames with the same trades of the account give it the same seven values.
C20_RowDependsOnOwnTrades ==
    pc = "metrics" =>
        \A i \in DOMAIN metrics :
            \A a \in {metrics[i].Port_IDs} :
                \A own \in {calculate_metrics(PortRows(trades, a), mdd_sort.sorted)} :
                    /\ Len(own) = 1
                    /\ metrics[i] = own[1]

\* a table of two accounts whose trades differ
C20_Witness ==
    /\ pc = "metrics"
    /\ Len(metrics) >= 2
    /\ \E i, j \in DOMAIN metrics :
          /\ metrics[i].total_pnl # metrics[j].total_pnl
          /\ metrics[i].max_drawdown # metrics[j].max_drawdown

(***************************************************************************)
(* Claims about the edges of rank_accounts (SpecRank).                     *)
(***************************************************************************)
\* C23: rank_accounts on a table of zero accounts returns a ranking of zero entries
\* and raises nothing, for every top_n >= 1.
C23_EmptyTableEmptyRanking ==
    (Len(metrics) = 0 /\ pc # "metrics" /\ top_n >= 1) =>
        /\ pc = "ranked"
        /\ raised = "none"
        /\ rankings = <<>>
        /\ normalized_metrics = <<>>
        /\ weighted_scores = <<>>

\* the call on the table without rows has returned, top_n being the default
C23_Witness ==
    /\ Len(metrics) = 0
    /\ pc = "ranked"
    /\ top_n = DefaultTopN
    /\ rankings = <<>>

\* account a has an entry in the ranking
Ranked(a) == \E k \in DOMAIN rankings : rankings[k].Port_IDs = a

\* C29: for top_n >= 1 no account left out of the ranking has a Score strictly
\* greater than the Score of an account included in it.
C29_SelectionIsBest ==
    (pc = "ranked" /\ top_n >= 1) =>
        \A i \in DOMAIN metrics :
            ~Ranked(metrics[i].Port_IDs) =>
                \A k \in DOMAIN rankings : ~RLt(rankings[k].Score, weighted_scores[i])

\* an account is left out whose Score is strictly below that of every entry
C29_Witness ==
    /\ pc = "ranked"
    /\ top_n >= 1
    /\ Len(rankings) >= 1
    /\ \E i \in DOMAIN metrics :
          /\ ~Ranked(metrics[i].Port_IDs)
          /\ \A k \in DOMAIN rankings : RLt(weighted_scores[i], rankings[k].Score)

\* the four columns in which a higher value is better
HigherIsBetter == {"roi", "total_pnl", "sharpe_ratio", "win_rate"}

\* row a of the frame is at least as good as row b in every metric
Dominates(frame, a, b) ==
    /\ \A c \in HigherIsBetter : RLe(frame[b][c], frame[a][c])
    /\ RLe(frame[a].max_drawdown, frame[b].max_drawdown)

\* the table as normalize_metrics reads it
CleanedMetrics ==
    [i \in DOMAIN metrics |->
        [c \in DOMAIN get_feature_importance |-> Finite(metrics[i][c])]]

\* C30 as claimed: if account A has roi, total_pnl, sharpe_ratio and win_rate each >=
\* those of account B and max_drawdown <= that of B, then Score(A) >= Score(B).
C30_ScoreMonotone ==
    pc = "ranked" =>
        \A a, b \in DOMAIN metrics :
            Dominates(metrics, a, b) => RLe(weighted_scores[b], weighted_scores[a])

\* C30 as amended: the same with every cell that is not finite read as 0, the value
\* normalize_metrics puts in its place before it scales the column.
C30_ScoreMonotoneOnCleaned ==
    pc = "ranked" =>
        \A frame \in {Tuple(CleanedMetrics)} : \A a, b \in DOMAIN metrics :
            Dominates(frame, a, b) => RLe(weighted_scores[b], weighted_scores[a])

\* an account better than another in roi and in max_drawdown, and scored strictly
\* higher, in a table with a cell that is not finite
C30_Witness ==
    /\ pc = "ranked"
    /\ \E a, b \in DOMAIN metrics :
          /\ Dominates(CleanedMetrics, a, b)
          /\ RLt(metrics[b].roi, metrics[a].roi)
          /\ RLt(metrics[a].max_drawdown, metrics[b].max_drawdown)
          /\ RLt(weighted_scores[b], weighted_scores[a])
    /\ \E i \in DOMAIN metrics : ~IsFinite(metrics[i].sharpe_ratio)

(***************************************************************************)
(* Claims about max_drawdown (SpecAccount).                                *)
(***************************************************************************)
\* cum_t: the product of 1 + realizedProfit over the first t rows
RECURSIVE Cum(_, _)
Cum(rows, t) ==
    IF t = 0 THEN One ELSE RMul(Cum(rows, t - 1), RAdd(One, rows[t].realizedProfit))

\* runmax_t: the largest of cum_1 .. cum_t, cum the sequence of the products
RunMax(cum, t) ==
    CHOOSE m \in {cum[u] : u \in 1..t} : \A u \in 1..t : RLe(cum[u], m)

\* cum_t / runmax_t - 1 at the steps where the quotient is defined
DrawdownSet(rows) ==
    The({The({{RSub(RDiv(cum[t], runmax[t]), One) : t \in {u \in DOMAIN cum : runmax[u] # Zero}}
              : runmax \in {Tuple([t \in DOMAIN cum |-> RunMax(cum, t)])}})
         : cum \in {Tuple([t \in DOMAIN rows |-> Cum(rows, t)])}})

\* 100 * |min_t (cum_t / runmax_t - 1)|, and 0 when the quotient is defined at no step
DrawdownFormula(rows) ==
    \* the set is bound once
    The({IF D = {} THEN Zero
         ELSE RMul(Hundred, RAbs(CHOOSE x \in D : \A y \in D : RLe(x, y)))
         : D \in {DrawdownSet(rows)}})

\* C24: max_drawdown = 100 * |min_t (cum_t / runmax_t - 1)| over the trades of the
\* account in ascending timestamp order, cum_t the product of 1 + realizedProfit over
\* the first t trades and runmax_t the largest cum among the first t; it is never
\* negative, also when some cum_t is zero or negative.
C24_DrawdownFormula ==
    pc = "metrics" =>
        \A i \in DOMAIN metrics :
            \A rows \in {mdd_sort.sorted[metrics[i].Port_IDs]} :
                /\ Len(rows) = TotalPositions(trades, metrics[i].Port_IDs)
                /\ \A j, k \in DOMAIN rows : j < k => rows[j].timestamp <= rows[k].timestamp
                /\ metrics[i].max_drawdown = DrawdownFormula(rows)
                /\ RLe(Zero, metrics[i].max_drawdown)

\* three trades given out of timestamp order, the cumulative product turning
\* negative, and a drawdown of more than 100
C24_Witness ==
    /\ pc = "metrics"
    /\ Len(trades) = 3
    /\ trades[2].timestamp < trades[1].timestamp
    /\ \E t \in 1..3 : RLt(Cum(mdd_sort.sorted[1], t), Zero)
    /\ RLt(Hundred, metrics[1].max_drawdown)

(***************************************************************************)
(* Claims about the order of the rows (SpecPermuted).                      *)
(***************************************************************************)
\* C28: the table calculate_metrics returns does not depend on the order of the rows
\* of its input: for every permutation of the same trade records, records of one
\* account with identical timestamps included, every account gets the same seven
\* metric values.
C28_RowOrderIrrelevant ==
    (pc = "metrics" /\ run = 2) => metrics = prev_metrics

(***************************************************************************)
(* Claims about the weights (SpecWeights) and about the score the sidebar  *)
(* shows (SpecSelect).                                                     *)
(***************************************************************************)
\* a set of weights is valid: none negative, and the five add up to a number
ValidWeights(w) ==
    /\ \A c \in DOMAIN w : RLe(Zero, w[c])
    /\ IsFinite(RSum([k \in DOMAIN WeightOrder |-> w[WeightOrder[k]]]))

\* C22: the caller of rank_accounts can override the five weights: with a valid set
\* the ranking is made with it, and with a set that is not valid (a weight negative,
\* or the set not summable) the ranking fails with an InvalidParameterError.
C22_WeightsOverridable ==
    (pc # "metrics" /\ call_weights # NoWeights) =>
        IF ValidWeights(call_weights[1])
        THEN /\ pc = "ranked"
             /\ weighted_scores = WeightedScores(normalize_metrics(metrics), call_weights[1])
        ELSE /\ pc = "raised"
             /\ raised = "InvalidParameterError"

\* C26: for an account that is not among the entries rank_accounts returned, the score
\* the sidebar shows equals the Score rank_accounts computed for it (same weights,
\* same normalization, the case max = min included), in the format of the display.
C26_FallbackScoreIsScore ==
    (pc = "displayed" /\ top_n >= 1 /\ ~rank_display.in_top) =>
        score_display =
            Round2(weighted_scores[CHOOSE i \in DOMAIN metrics :
                                       metrics[i].Port_IDs = selected_account])

(***************************************************************************)
(* Claims about load_data, clean_data and what they hand to                *)
(* calculate_metrics (SpecLoad).                                           *)
(***************************************************************************)
\* a required column that the frame has under no name, listed alias or not
Unmappable(data) ==
    \E k \in DOMAIN REQUIRED_COLUMNS :
        /\ REQUIRED_COLUMNS[k] \notin Columns(data)
        /\ FirstAlias(Columns(data), column_mapping[REQUIRED_COLUMNS[k]]) = 0

\* C27: the aliases are mapped before any required column is read: a frame that
\* load_data returns has the required columns, and load_data takes the error path
\* for parsed trades only when a required column is there under no listed name.
C27_AliasesMappedBeforeRead ==
    /\ pc = "loaded" => Range(REQUIRED_COLUMNS) \subseteq Columns(trades)
    /\ (pc = "stopped" /\ Len(trades) # 0) => Unmappable(trades)

\* C25: every trade that reaches calculate_metrics in the pipeline of app.py has
\* price, quantity and realizedProfit coerced to numbers, text and missing
\* entries being 0: the coercion would change none of these cells.
C25_CoercedBeforeMetrics ==
    pc = "start" =>
        \A i \in DOMAIN trades : \A c \in NumericColumns :
            c \in DOMAIN trades[i] /\ trades[i][c] = Coerced(trades[i][c])

\* C21: a metric that cannot be computed for one account does not abort
\* calculate_metrics: called on a frame with rows it returns a table with a row
\* for every account of the frame.
C21_FailureStaysLocal ==
    (pc \in {"metrics", "raised"} /\ Len(trades) # 0) =>
        /\ pc = "metrics"
        /\ {metrics[i].Port_IDs : i \in DOMAIN metrics} = {trades[i].Port_IDs : i \in DOMAIN trades}

====
